---- MODULE Spec2Model ----
(***************************************************************************)
(* Model of grade-generator.py: the interactive collection loop            *)
(* (prompt_* / collect_assignments), the aggregation (calculate_totals),   *)
(* the report (print_summary), the persistence (write_csv) and main.       *)
(*                                                                         *)
(* Text is a tuple of one-character strings, so that strip(), upper(),     *)
(* lower() and float() are computed on the characters.  A float is a       *)
(* record: a finite value is kept as an exact decimal with three           *)
(* fractional digits (v = value * Scale); inf and nan are kept as such,    *)
(* with the IEEE rules for arithmetic and comparison.  Binary rounding of  *)
(* finite values is not modelled.                                          *)
(***************************************************************************)
EXTENDS Integers, Sequences, FiniteSets, TLC

\* ------------------------------------------------------------------ bounds
MaxRecords == 2     \* records entered in one session
MaxLen == 2         \* length of the list handed to main's second half

\* ------------------------------------------------------------------ floats
Scale == 10 * 100

Fin(n) == [k |-> "fin", v |-> n]
Inf == [k |-> "inf", v |-> 1]
NegInf == [k |-> "inf", v |-> -1]
NaN == [k |-> "nan", v |-> 0]
None == [k |-> "none", v |-> 0]

Zero == Fin(0)
Dec(units) == Fin(units * Scale)

Sign(n) == IF n > 0 THEN 1 ELSE IF n < 0 THEN -1 ELSE 0
Abs(n) == IF n < 0 THEN -n ELSE n
\* quotient rounded toward zero
Quot(a, b) == Sign(a) * Sign(b) * (Abs(a) \div Abs(b))

Add(a, b) ==
    IF a.k = "nan" \/ b.k = "nan" THEN NaN
    ELSE IF a.k = "inf" /\ b.k = "inf" THEN (IF a.v = b.v THEN a ELSE NaN)
    ELSE IF a.k = "inf" THEN a
    ELSE IF b.k = "inf" THEN b
    ELSE Fin(a.v + b.v)

Mul(a, b) ==
    IF a.k = "nan" \/ b.k = "nan" THEN NaN
    ELSE IF a.k = "inf" \/ b.k = "inf"
         THEN (IF a.v = 0 \/ b.v = 0 THEN NaN
               ELSE [k |-> "inf", v |-> Sign(a.v) * Sign(b.v)])
    ELSE Fin(Quot(a.v * b.v, Scale))

\* the divisors of the program are 100.0 and a positive total weight
Div(a, b) ==
    IF a.k = "nan" \/ b.k = "nan" THEN NaN
    ELSE IF a.k = "inf" /\ b.k = "inf" THEN NaN
    ELSE IF a.k = "inf" THEN [k |-> "inf", v |-> a.v * Sign(b.v)]
    ELSE IF b.k = "inf" THEN Zero
    ELSE Fin(Quot(a.v * Scale, b.v))

\* a comparison with nan is false
Lt(a, b) ==
    IF a.k = "nan" \/ b.k = "nan" THEN FALSE
    ELSE IF a.k = "inf" /\ b.k = "inf" THEN a.v < b.v
    ELSE IF a.k = "inf" THEN a.v < 0
    ELSE IF b.k = "inf" THEN b.v > 0
    ELSE a.v < b.v

Gt(a, b) == Lt(b, a)
Le(a, b) == a.k # "nan" /\ b.k # "nan" /\ ~Lt(b, a)
Ge(a, b) == Le(b, a)

\* ------------------------------------------------------------------ text
LowerLetters == <<"a","b","c","d","e","f","g","h","i","j","k","l","m",
                  "n","o","p","q","r","s","t","u","v","w","x","y","z">>
UpperLetters == <<"A","B","C","D","E","F","G","H","I","J","K","L","M",
                  "N","O","P","Q","R","S","T","U","V","W","X","Y","Z">>
Digits == <<"0","1","2","3","4","5","6","7","8","9">>
Whitespace == {" ", "\t"}

IndexIn(c, tbl) == IF \E i \in DOMAIN tbl : tbl[i] = c
                   THEN CHOOSE i \in DOMAIN tbl : tbl[i] = c
                   ELSE 0

upper(s) == [i \in DOMAIN s |->
               IF IndexIn(s[i], LowerLetters) # 0
               THEN UpperLetters[IndexIn(s[i], LowerLetters)] ELSE s[i]]
lower(s) == [i \in DOMAIN s |->
               IF IndexIn(s[i], UpperLetters) # 0
               THEN LowerLetters[IndexIn(s[i], UpperLetters)] ELSE s[i]]

RECURSIVE lstrip(_)
lstrip(s) == IF s # <<>> /\ Head(s) \in Whitespace THEN lstrip(Tail(s)) ELSE s
RECURSIVE rstrip(_)
rstrip(s) == IF s # <<>> /\ s[Len(s)] \in Whitespace
             THEN rstrip(SubSeq(s, 1, Len(s) - 1)) ELSE s
strip(s) == rstrip(lstrip(s))

IsDigits(s) == \A i \in DOMAIN s : IndexIn(s[i], Digits) # 0
RECURSIVE DigitsValue(_)
DigitsValue(s) == IF s = <<>> THEN 0
                  ELSE 10 * DigitsValue(SubSeq(s, 1, Len(s) - 1))
                       + (IndexIn(s[Len(s)], Digits) - 1)
RECURSIVE Pow10(_)
Pow10(n) == IF n = 0 THEN 1 ELSE 10 * Pow10(n - 1)

\* float(): optional sign, then inf / infinity / nan in any case, or decimal
\* digits with an optional point; anything else is a ValueError (ok = FALSE).
\* Exponents and digit separators are outside the inputs of the model.
ParseUnsigned(s) ==
    LET low == lower(s)
        dot == IndexIn(".", s)
        ip == IF dot = 0 THEN s ELSE SubSeq(s, 1, dot - 1)
        fp == IF dot = 0 THEN <<>> ELSE SubSeq(s, dot + 1, Len(s))
    IN  IF low = <<"i","n","f">> \/ low = <<"i","n","f","i","n","i","t","y">>
        THEN [ok |-> TRUE, val |-> Inf]
        ELSE IF low = <<"n","a","n">> THEN [ok |-> TRUE, val |-> NaN]
        ELSE IF IsDigits(ip) /\ IsDigits(fp) /\ Len(ip) + Len(fp) > 0
        THEN [ok |-> TRUE,
              val |-> Fin(DigitsValue(ip) * Scale
                          + (DigitsValue(fp) * Scale) \div Pow10(Len(fp)))]
        ELSE [ok |-> FALSE, val |-> None]

Negate(x) == IF x.k = "nan" THEN x ELSE [k |-> x.k, v |-> -x.v]

float(s) ==
    IF s # <<>> /\ Head(s) = "-"
    THEN LET r == ParseUnsigned(Tail(s))
         IN  IF r.ok THEN [ok |-> TRUE, val |-> Negate(r.val)] ELSE r
    ELSE IF s # <<>> /\ Head(s) = "+" THEN ParseUnsigned(Tail(s))
    ELSE ParseUnsigned(s)

\* f"{x:.2f}": two fractional digits; a finite value is rounded to the
\* nearest hundredth.  A decimal tie is rounded to even here; Python rounds
\* the binary value, so the inputs of the model hold no tie.
RECURSIVE NatStr(_)
NatStr(n) == IF n < 10 THEN <<Digits[n + 1]>>
             ELSE NatStr(n \div 10) \o <<Digits[(n % 10) + 1]>>
RoundHundredths(n) ==
    LET unit == Scale \div 100
        q == n \div unit
        r == n % unit
    IN  IF 2 * r > unit \/ (2 * r = unit /\ q % 2 = 1) THEN q + 1 ELSE q
Fmt2(x) ==
    IF x.k = "nan" THEN <<"n","a","n">>
    ELSE IF x.k = "inf" THEN (IF x.v < 0 THEN <<"-">> ELSE <<>>) \o <<"i","n","f">>
    ELSE LET h == RoundHundredths(Abs(x.v))
         IN  (IF x.v < 0 /\ h > 0 THEN <<"-">> ELSE <<>>)
             \o NatStr(h \div 100) \o <<".">>
             \o <<Digits[((h % 100) \div 10) + 1], Digits[(h % 10) + 1]>>

\* ------------------------------------------------------------------ texts
FA == <<"F","A">>
SA == <<"S","A">>
Quiz1 == <<"Q","u","i","z","1">>
Final == <<"F","i","n","a","l">>

\* what the user may type at each prompt
NameInputs == { <<>>, <<" ", " ">>, <<" ">> \o Quiz1 \o <<" ">>, Final }
CategoryInputs == { <<"f","a">>, <<" ","S","A">>, <<"X">>, <<>>, <<"F","A","S">> }
GradeInputs == { <<"a","b","c">>, <<>>, <<"-","5">>, <<"1","0","1">>, <<"n","a","n">>,
                 <<"0">>, <<" ","8","0",".","0">>, <<"1","0","0">> }
WeightInputs == { <<"a","b","c">>, <<"-","5">>, <<"0">>, <<"N","a","N">>,
                  <<"2","0">>, <<"i","n","f">> }
ContinueInputs == { <<"y">>, <<"Y","E","S">>, <<"n">>, <<" ","N","o">>,
                    <<"m","a","y","b","e">>, <<>> }

\* ------------------------------------------------------------------ state
VARIABLES
    pc,           \* position of the program: the prompt being waited on, or the statement of main to run next
    assignments,  \* the list built by collect_assignments and handed to main
    name,         \* locals of collect_assignments
    category,
    grade,
    weight,
    lastInput,    \* the text returned by the latest input() call
    printed,      \* what the latest step of the collection loop printed
    totals,       \* result of calculate_totals
    stdout,       \* the lines printed by main and print_summary
    csvfile,      \* grades.csv
    events        \* the calls and prints of main, in execution order

vars == <<pc, assignments, name, category, grade, weight, lastInput, printed,
          totals, stdout, csvfile, events>>

Prompts == {"name", "category", "grade", "weight", "continue"}

\* the prompt text of each input() call
PromptText(p) ==
    CASE p = "name" -> "Assignment Name: "
      [] p = "category" -> "Category (FA/SA): "
      [] p = "grade" -> "Grade (0-100): "
      [] p = "weight" -> "Weight (> 0): "
      [] p = "continue" -> "Add another assignment? (y/n): "
      [] OTHER -> ""

Hundred == Dec(100)

\* Assignment and its weighted_grade property
Assignment(n, c, g, w) == [name |-> n, category |-> c, grade |-> g, weight |-> w]
\* variant: the grade is not divided by 100
weighted_grade_unscaled(a) == Mul(a.grade, a.weight)
weighted_grade(a) == Mul(Div(a.grade, Hundred), a.weight)

\* ------------------------------------------------------------------ prompts
\* the acceptance tests of the five prompt loops
name_ok(value) == value # <<>>
category_ok(c) == c \in {FA, SA}
\* variant: only the upper end of the grade range is tested
grade_ok_upper_only(g) == Le(g, Hundred)
grade_ok(g) == Le(Zero, g) /\ Le(g, Hundred)
\* variant: a weight of zero is accepted
weight_ok_nonneg(w) == Ge(w, Zero)
weight_ok(w) == Gt(w, Zero)
continue_yes(response) == response \in { <<"y">>, <<"y","e","s">> }
continue_no(response) == response \in { <<"n">>, <<"n","o">> }

NoFile == [exists |-> FALSE, header |-> <<>>, rows |-> <<>>]
OldFile == [exists |-> TRUE,
            header |-> <<"Assignment", "Category", "Grade", "Weight">>,
            rows |-> << <<Final, FA, Fmt2(Dec(1)), Fmt2(Dec(1))>> >>]

Init ==
    /\ pc = "name"
    /\ assignments = <<>>
    /\ name = <<>>
    /\ category = <<>>
    /\ grade = None
    /\ weight = None
    /\ lastInput = <<>>
    /\ printed = <<"Enter assignment details:">>
    /\ totals = None
    /\ stdout = <<>>
    /\ csvfile \in {NoFile, OldFile}
    /\ events = <<"collect_assignments">>

MainVars == <<totals, stdout, csvfile, events>>

\* one iteration of the loop of prompt_non_empty("Assignment Name: ")
PromptNonEmpty ==
    /\ pc = "name"
    /\ \E raw \in NameInputs :
         LET value == strip(raw) IN
         /\ lastInput' = raw
         /\ IF name_ok(value)
            THEN /\ name' = value
                 /\ printed' = <<>>
                 /\ pc' = "category"
            ELSE /\ printed' = <<"Value cannot be empty.">>
                 /\ UNCHANGED <<name, pc>>
    /\ UNCHANGED <<assignments, category, grade, weight>>
    /\ UNCHANGED MainVars

\* one iteration of the loop of prompt_category
PromptCategory ==
    /\ pc = "category"
    /\ \E raw \in CategoryInputs :
         LET c == upper(strip(raw)) IN
         /\ lastInput' = raw
         /\ IF category_ok(c)
            THEN /\ category' = c
                 /\ printed' = <<>>
                 /\ pc' = "grade"
            ELSE /\ printed' = <<"Category must be 'FA' or 'SA'">>
                 /\ UNCHANGED <<category, pc>>
    /\ UNCHANGED <<assignments, name, grade, weight>>
    /\ UNCHANGED MainVars

\* one iteration of the loop of prompt_grade
PromptGrade ==
    /\ pc = "grade"
    /\ \E raw \in GradeInputs :
         LET r == float(strip(raw)) IN
         /\ lastInput' = raw
         /\ IF r.ok /\ grade_ok(r.val)
            THEN /\ grade' = r.val
                 /\ printed' = <<>>
                 /\ pc' = "weight"
            ELSE /\ printed' = <<"Grade must be between 0 and 100">>
                 /\ UNCHANGED <<grade, pc>>
    /\ UNCHANGED <<assignments, name, category, weight>>
    /\ UNCHANGED MainVars

\* variant: the new record is put at the front of the list
PromptWeight_prepends ==
    /\ pc = "weight"
    /\ \E raw \in WeightInputs :
         LET r == float(strip(raw)) IN
         /\ lastInput' = raw
         /\ IF r.ok /\ weight_ok(r.val)
            THEN /\ weight' = r.val
                 /\ assignments' = <<Assignment(name, category, grade, r.val)>>
                                      \o assignments
                 /\ printed' = <<>>
                 /\ pc' = "continue"
            ELSE /\ printed' = <<"Weight must be a positive number">>
                 /\ UNCHANGED <<weight, assignments, pc>>
    /\ UNCHANGED <<name, category, grade>>
    /\ UNCHANGED MainVars

\* variant: the record is not appended before the continuation question
PromptWeight_no_append ==
    /\ pc = "weight"
    /\ \E raw \in WeightInputs :
         LET r == float(strip(raw)) IN
         /\ lastInput' = raw
         /\ IF r.ok /\ weight_ok(r.val)
            THEN /\ weight' = r.val
                 /\ printed' = <<>>
                 /\ pc' = "continue"
                 /\ UNCHANGED assignments
            ELSE /\ printed' = <<"Weight must be a positive number">>
                 /\ UNCHANGED <<weight, assignments, pc>>
    /\ UNCHANGED <<name, category, grade>>
    /\ UNCHANGED MainVars

\* one iteration of the loop of prompt_weight; on return collect_assignments
\* appends the record and goes on to prompt_continue
PromptWeight ==
    /\ pc = "weight"
    /\ \E raw \in WeightInputs :
         LET r == float(strip(raw)) IN
         /\ lastInput' = raw
         /\ IF r.ok /\ weight_ok(r.val)
            THEN /\ weight' = r.val
                 /\ assignments' = Append(assignments,
                                          Assignment(name, category, grade, r.val))
                 /\ printed' = <<>>
                 /\ pc' = "continue"
            ELSE /\ printed' = <<"Weight must be a positive number">>
                 /\ UNCHANGED <<weight, assignments, pc>>
    /\ UNCHANGED <<name, category, grade>>
    /\ UNCHANGED MainVars

\* one iteration of the loop of prompt_continue; True starts the next record,
\* False leaves the loop: collect_assignments returns and its locals are gone
PromptContinue ==
    /\ pc = "continue"
    /\ \E raw \in ContinueInputs :
         LET response == lower(strip(raw)) IN
         /\ lastInput' = raw
         /\ IF continue_yes(response)
            THEN /\ Len(assignments) < MaxRecords
                 /\ printed' = <<"Enter assignment details:">>
                 /\ pc' = "name"
                 /\ UNCHANGED <<name, category, grade, weight>>
            ELSE IF continue_no(response)
            THEN /\ printed' = <<>>
                 /\ pc' = "main"
                 /\ name' = <<>>
                 /\ category' = <<>>
                 /\ grade' = None
                 /\ weight' = None
            ELSE /\ printed' = <<"Please enter 'y' or 'n'.">>
                 /\ UNCHANGED <<pc, name, category, grade, weight>>
    /\ UNCHANGED assignments
    /\ UNCHANGED MainVars

\* ------------------------------------------------------------------ aggregation
\* sum(): left to right, starting from 0
RECURSIVE sum(_)
sum(xs) == IF xs = <<>> THEN Zero
           ELSE Add(sum(SubSeq(xs, 1, Len(xs) - 1)), xs[Len(xs)])

OfCategory(as, c) == SelectSeq(as, LAMBDA a : a.category = c)
WeightedGrades(as) == [i \in DOMAIN as |-> weighted_grade(as[i])]
Weights(as) == [i \in DOMAIN as |-> as[i].weight]

Half == Fin(Scale \div 2)
Five == Dec(5)

\* variant: a score equal to the threshold does not pass
category_passes_strict(x, threshold, total_weight) ==
    IF Gt(total_weight, Zero) THEN Gt(x, threshold) ELSE TRUE

\* x >= threshold if total_weight > 0 else True
category_passes(x, threshold, total_weight) ==
    IF Gt(total_weight, Zero) THEN Ge(x, threshold) ELSE TRUE

gpa_of(final_grade) == Mul(Div(final_grade, Hundred), Five)

calculate_totals(as) ==
    LET total_formative == sum(WeightedGrades(OfCategory(as, FA)))
        total_summative == sum(WeightedGrades(OfCategory(as, SA)))
        total_fa_weight == sum(Weights(OfCategory(as, FA)))
        total_sa_weight == sum(Weights(OfCategory(as, SA)))
        final_grade == Add(total_formative, total_summative)
        fa_threshold == Mul(total_fa_weight, Half)
        sa_threshold == Mul(total_sa_weight, Half)
    IN  [ total_formative |-> total_formative,
          total_summative |-> total_summative,
          total_fa_weight |-> total_fa_weight,
          total_sa_weight |-> total_sa_weight,
          final_grade |-> final_grade,
          gpa |-> gpa_of(final_grade),
          fa_threshold |-> fa_threshold,
          sa_threshold |-> sa_threshold,
          passes |-> category_passes(total_formative, fa_threshold, total_fa_weight)
                     /\ category_passes(total_summative, sa_threshold, total_sa_weight) ]

format_percentage(value, total_weight) ==
    IF Le(total_weight, Zero) THEN Zero
    ELSE Mul(Div(value, total_weight), Hundred)

\* ------------------------------------------------------------------ report
\* a printed line: its fixed text (or its kind) and the formatted values in it
Line(t, args) == [t |-> t, args |-> args]

ItemLines(as) ==
    [i \in DOMAIN as |->
        Line("item", <<NatStr(i), as[i].name, as[i].category, Fmt2(as[i].grade),
                       Fmt2(as[i].weight), Fmt2(weighted_grade(as[i]))>>)]

\* the condition under which the "Failed <category>" line is printed
prints_failed(passes, x, threshold, total_weight) ==
    ~passes /\ Gt(total_weight, Zero) /\ Lt(x, threshold)

print_summary(as, t) ==
    << Line("=== GRADE SUMMARY ===", <<>>), Line("Assignments Entered:", <<>>) >>
    \o ItemLines(as)
    \o << Line("Category Breakdown:", <<>>),
          Line("Total Formative (FA)",
               <<Fmt2(t.total_formative), Fmt2(t.total_fa_weight),
                 Fmt2(format_percentage(t.total_formative, t.total_fa_weight))>>),
          Line("Total Summative (SA)",
               <<Fmt2(t.total_summative), Fmt2(t.total_sa_weight),
                 Fmt2(format_percentage(t.total_summative, t.total_sa_weight))>>),
          Line("Final Results:", <<>>),
          Line("Total Grade", <<Fmt2(t.final_grade)>>),
          Line("GPA", <<Fmt2(t.gpa)>>),
          Line("Status", <<IF t.passes THEN <<"P","A","S","S">> ELSE <<"F","A","I","L">> >>) >>
    \o (IF prints_failed(t.passes, t.total_formative, t.fa_threshold, t.total_fa_weight)
        THEN << Line("Failed FA", <<Fmt2(t.total_formative), Fmt2(t.fa_threshold)>>) >>
        ELSE <<>>)
    \o (IF prints_failed(t.passes, t.total_summative, t.sa_threshold, t.total_sa_weight)
        THEN << Line("Failed SA", <<Fmt2(t.total_summative), Fmt2(t.sa_threshold)>>) >>
        ELSE <<>>)

\* ------------------------------------------------------------------ persistence
CsvHeader == <<"Assignment", "Category", "Grade", "Weight">>
CsvRows(as) ==
    [i \in DOMAIN as |->
        <<as[i].name, as[i].category, Fmt2(as[i].grade), Fmt2(as[i].weight)>>]

\* grades.csv after a write_csv that ran to the end
WrittenFile(as) == [exists |-> TRUE, header |-> CsvHeader, rows |-> CsvRows(as)]

\* grades.csv after a write_csv that raised: open() failed and the file is as
\* it was, or the file was truncated and some prefix of the text reached it
FailedFiles(old, as) ==
    {old, [exists |-> TRUE, header |-> <<>>, rows |-> <<>>]}
    \cup { [exists |-> TRUE, header |-> CsvHeader, rows |-> SubSeq(CsvRows(as), 1, n)] :
             n \in 0 .. Len(as) }

\* ------------------------------------------------------------------ main
CollectVars == <<assignments, name, category, grade, weight, lastInput, printed>>

\* variant: the message is printed but main does not return
MainCheck_no_return ==
    /\ pc = "main"
    /\ IF assignments = <<>>
       THEN /\ stdout' = Append(stdout,
                   Line("No assignments entered. Exiting without generating summary.", <<>>))
            /\ events' = Append(events, "print_no_assignments")
       ELSE UNCHANGED <<stdout, events>>
    /\ pc' = "calc"
    /\ UNCHANGED <<totals, csvfile>>
    /\ UNCHANGED CollectVars

\* if not assignments: print(...); return
MainCheck ==
    /\ pc = "main"
    /\ IF assignments = <<>>
       THEN /\ stdout' = Append(stdout,
                   Line("No assignments entered. Exiting without generating summary.", <<>>))
            /\ events' = Append(events, "print_no_assignments")
            /\ pc' = "exit"
       ELSE /\ pc' = "calc"
            /\ UNCHANGED <<stdout, events>>
    /\ UNCHANGED <<totals, csvfile>>
    /\ UNCHANGED CollectVars

\* totals = calculate_totals(assignments)
CalculateTotals ==
    /\ pc = "calc"
    /\ totals' = calculate_totals(assignments)
    /\ events' = Append(events, "calculate_totals")
    /\ pc' = "summary"
    /\ UNCHANGED <<stdout, csvfile>>
    /\ UNCHANGED CollectVars

\* print_summary(assignments, totals)
PrintSummary ==
    /\ pc = "summary"
    /\ stdout' = stdout \o print_summary(assignments, totals)
    /\ events' = Append(events, "print_summary")
    /\ pc' = "write"
    /\ UNCHANGED <<totals, csvfile>>
    /\ UNCHANGED CollectVars

\* write_csv(assignments) runs to the end
WriteCsv ==
    /\ pc = "write"
    /\ csvfile' = WrittenFile(assignments)
    /\ events' = Append(events, "write_csv")
    /\ pc' = "confirm"
    /\ UNCHANGED <<totals, stdout>>
    /\ UNCHANGED CollectVars

\* variant: the error of write_csv is caught and main goes on
WriteCsvFails_swallowed ==
    /\ pc = "write"
    /\ csvfile' \in FailedFiles(csvfile, assignments)
    /\ events' = events \o <<"write_csv", "OSError">>
    /\ pc' = "confirm"
    /\ UNCHANGED <<totals, stdout>>
    /\ UNCHANGED CollectVars

\* write_csv(assignments) raises OSError: nothing in main catches it
WriteCsvFails ==
    /\ pc = "write"
    /\ csvfile' \in FailedFiles(csvfile, assignments)
    /\ events' = events \o <<"write_csv", "OSError">>
    /\ pc' = "crashed"
    /\ UNCHANGED <<totals, stdout>>
    /\ UNCHANGED CollectVars

\* variant: main runs in a loop and starts a new collection after the save
SaveConfirm_restarts ==
    /\ pc = "confirm"
    /\ stdout' = Append(stdout, Line("Data saved to grades.csv", <<>>))
    /\ events' = Append(events, "print_saved")
    /\ pc' = "name"
    /\ UNCHANGED <<totals, csvfile>>
    /\ UNCHANGED CollectVars

\* print("\nData saved to grades.csv")
SaveConfirm ==
    /\ pc = "confirm"
    /\ stdout' = Append(stdout, Line("Data saved to grades.csv", <<>>))
    /\ events' = Append(events, "print_saved")
    /\ pc' = "exit"
    /\ UNCHANGED <<totals, csvfile>>
    /\ UNCHANGED CollectVars

Next ==
    \/ PromptNonEmpty
    \/ PromptCategory
    \/ PromptGrade
    \/ PromptWeight
    \/ PromptContinue
    \/ MainCheck
    \/ CalculateTotals
    \/ PrintSummary
    \/ WriteCsv
    \/ WriteCsvFails
    \/ SaveConfirm

Spec == Init /\ [][Next]_vars

\* ------------------------------------------------------------------ main on a given list
\* main from the return of collect_assignments on, for every list of records
\* up to MaxLen, the empty one included; the name goes with the category as in
\* the Quiz1 / Final scenario
GradeValues == { Zero, Fin(49 * Scale + Scale \div 2), Dec(50), Dec(60), Dec(80) }
WeightValues == { Dec(20), Dec(80), Inf }
Records == { Assignment(IF c = FA THEN Quiz1 ELSE Final, c, g, w) :
               c \in {FA, SA}, g \in GradeValues, w \in WeightValues }
Lists == UNION { [1 .. n -> Records] : n \in 0 .. MaxLen }

InitMain ==
    /\ pc = "main"
    /\ assignments \in Lists
    /\ name = <<>>
    /\ category = <<>>
    /\ grade = None
    /\ weight = None
    /\ lastInput = <<"n">>
    /\ printed = <<>>
    /\ totals = None
    /\ stdout = <<>>
    /\ csvfile \in {NoFile, OldFile}
    /\ events = <<"collect_assignments">>

NextMain ==
    \/ MainCheck
    \/ CalculateTotals
    \/ PrintSummary
    \/ WriteCsv
    \/ WriteCsvFails
    \/ SaveConfirm

SpecMain == InitMain /\ [][NextMain]_vars

\* ------------------------------------------------------------------ properties
MainPcs == {"main", "calc", "summary", "write", "confirm", "exit", "crashed"}
FullRun == <<"collect_assignments", "calculate_totals", "print_summary",
             "write_csv", "print_saved">>
IsPrefix(a, b) == Len(a) <= Len(b) /\ SubSeq(b, 1, Len(a)) = a
Count(seq, x) == Cardinality({i \in DOMAIN seq : seq[i] = x})
HasLine(t) == \E i \in DOMAIN stdout : stdout[i].t = t
SavedLine == Line("Data saved to grades.csv", <<>>)
NoAssignmentsLine == Line("No assignments entered. Exiting without generating summary.", <<>>)
Computed == totals # None

\* C1: passes is TRUE exactly when both categories pass, where a category
\* passes iff its total weight is 0 or its total weighted score is at least
\* half its total weight (a score equal to half the weight passes).
HalfOf(w) == Mul(w, Half)
PassRule(score, total_weight) == total_weight = Zero \/ Ge(score, HalfOf(total_weight))
C1_PassesIffBothCategoriesPass ==
    Computed =>
        (totals.passes <=>
            (/\ PassRule(totals.total_formative, totals.total_fa_weight)
             /\ PassRule(totals.total_summative, totals.total_sa_weight)))

\* a formative score exactly at half of the formative weight, and a pass
C1_Witness ==
    /\ Computed
    /\ Gt(totals.total_fa_weight, Zero)
    /\ totals.total_formative = HalfOf(totals.total_fa_weight)
    /\ totals.total_formative.k = "fin"
    /\ totals.passes

\* C2: a run that ends with at least one record and a successful write has
\* called calculate_totals, print_summary, write_csv and printed the save
\* confirmation, each once and in that order; once collect_assignments has
\* returned no prompt is issued and no record is appended.
C2_Order ==
    /\ (pc \in MainPcs /\ assignments # <<>> /\ Count(events, "OSError") = 0)
          => IsPrefix(events, FullRun)
    /\ (pc = "exit" /\ assignments # <<>>) => events = FullRun
    /\ (pc = "exit" /\ assignments # <<>>)
          => (stdout = print_summary(assignments, totals) \o <<SavedLine>>)
C2_NoReturn ==
    pc \in MainPcs =>
        /\ pc' \in MainPcs
        /\ assignments' = assignments
        /\ lastInput' = lastInput
C2_DoneInOrderAndFinal == [](C2_Order) /\ [][C2_NoReturn]_vars

C2_Witness ==
    /\ pc = "exit"
    /\ Len(assignments) >= 1
    /\ events = FullRun
    /\ csvfile = WrittenFile(assignments)

\* C3: at each of the five prompts an invalid input leaves the record list and
\* the fields accepted so far unchanged, keeps the session at the same prompt,
\* prints that prompt's fixed diagnostic and raises nothing; a valid input
\* moves to the next field or state.
Diagnostic(p) ==
    CASE p = "name" -> "Value cannot be empty."
      [] p = "category" -> "Category must be 'FA' or 'SA'"
      [] p = "grade" -> "Grade must be between 0 and 100"
      [] p = "weight" -> "Weight must be a positive number"
      [] p = "continue" -> "Please enter 'y' or 'n'."
IsNumberIn(raw, lowOk(_)) ==
    LET r == float(strip(raw)) IN r.ok /\ r.val.k # "nan" /\ lowOk(r.val)
ValidInput(p, raw) ==
    CASE p = "name" -> strip(raw) # <<>>
      [] p = "category" -> upper(strip(raw)) \in {FA, SA}
      [] p = "grade" -> IsNumberIn(raw, LAMBDA x : ~Lt(x, Zero) /\ ~Gt(x, Dec(100)))
      [] p = "weight" -> IsNumberIn(raw, LAMBDA x : Gt(x, Zero))
      [] p = "continue" -> lower(strip(raw)) \in { <<"y">>, <<"y","e","s">>,
                                                   <<"n">>, <<"n","o">> }
NextAfter(p, raw) ==
    CASE p = "name" -> "category"
      [] p = "category" -> "grade"
      [] p = "grade" -> "weight"
      [] p = "weight" -> "continue"
      [] p = "continue" -> IF Head(lower(strip(raw))) = "y" THEN "name" ELSE "main"
C3_Step ==
    \A p \in Prompts :
        pc = p =>
            IF ValidInput(p, lastInput')
            THEN pc' = NextAfter(p, lastInput')
            ELSE /\ pc' = p
                 /\ PromptText(pc') = PromptText(p)
                 /\ printed' = <<Diagnostic(p)>>
                 /\ assignments' = assignments
                 /\ <<name, category, grade, weight>>' = <<name, category, grade, weight>>
                 /\ UNCHANGED MainVars
C3_InvalidInputNeverAdvances == [][C3_Step]_vars

\* a second record is being built and "-5" was just refused as its weight
C3_Witness ==
    /\ pc = "weight"
    /\ Len(assignments) = 1
    /\ lastInput = <<"-","5">>
    /\ printed = <<"Weight must be a positive number">>
    /\ grade # None

\* C4: every record of the list has a non-empty name, category FA or SA,
\* 0 <= grade <= 100 and weight > 0.
C4_RecordsValid ==
    \A i \in DOMAIN assignments :
        LET a == assignments[i] IN
        /\ a.name # <<>>
        /\ a.category = FA \/ a.category = SA
        /\ a.grade.k \in {"fin", "inf"} /\ ~Lt(a.grade, Zero) /\ ~Gt(a.grade, Dec(100))
        /\ a.weight.k \in {"fin", "inf"} /\ Gt(a.weight, Zero)

\* two records entered after refused inputs, at the ends of the grade range
C4_Witness ==
    /\ Len(assignments) >= 2
    /\ assignments[1].grade = Zero
    /\ assignments[2].grade = Dec(100)
    /\ pc = "continue"

\* C5: total_formative and total_summative are the sums of (grade/100)*weight
\* over the FA and the SA records, total_fa_weight and total_sa_weight the sums
\* of their weights, final_grade the sum of the two totals and gpa is
\* final_grade * 0.05; the Quiz1 / Final scenario gives 16, 48, 64, 3.20, 10,
\* 40 and a pass.
Scored(a) == Mul(Div(a.grade, Dec(100)), a.weight)
RECURSIVE ScoreSum(_, _)
ScoreSum(as, c) ==
    IF as = <<>> THEN Zero
    ELSE IF Head(as).category = c
         THEN Add(Scored(Head(as)), ScoreSum(Tail(as), c))
         ELSE ScoreSum(Tail(as), c)
RECURSIVE WeightSum(_, _)
WeightSum(as, c) ==
    IF as = <<>> THEN Zero
    ELSE IF Head(as).category = c
         THEN Add(Head(as).weight, WeightSum(Tail(as), c))
         ELSE WeightSum(Tail(as), c)
Scenario == << Assignment(Quiz1, FA, Dec(80), Dec(20)),
               Assignment(Final, SA, Dec(60), Dec(80)) >>
C5_TotalsAreSums ==
    Computed =>
        /\ totals.total_formative = ScoreSum(assignments, FA)
        /\ totals.total_summative = ScoreSum(assignments, SA)
        /\ totals.total_fa_weight = WeightSum(assignments, FA)
        /\ totals.total_sa_weight = WeightSum(assignments, SA)
        /\ totals.final_grade = Add(totals.total_formative, totals.total_summative)
        /\ totals.gpa = Mul(totals.final_grade, Fin(Scale \div 20))
        /\ assignments = Scenario =>
              /\ totals.total_formative = Dec(16)
              /\ totals.total_summative = Dec(48)
              /\ totals.final_grade = Dec(64)
              /\ totals.gpa = Fin(3 * Scale + Scale \div 5)
              /\ totals.fa_threshold = Dec(10)
              /\ totals.sa_threshold = Dec(40)
              /\ totals.passes

C5_Witness ==
    /\ assignments = Scenario
    /\ Computed
    /\ totals.gpa = Fin(3 * Scale + Scale \div 5)

\* C6: print_summary prints the "Failed" line of a category iff the status is
\* FAIL, the category's total weight is positive and its achieved total is
\* below its threshold; a PASS report has no such line and every FAIL report
\* has at least one.
Reported == pc \in {"write", "confirm", "exit", "crashed"}
C6_FailedLines ==
    Reported =>
        /\ HasLine("Failed FA") <=>
              (/\ ~totals.passes
               /\ Gt(totals.total_fa_weight, Zero)
               /\ Lt(totals.total_formative, totals.fa_threshold))
        /\ HasLine("Failed SA") <=>
              (/\ ~totals.passes
               /\ Gt(totals.total_sa_weight, Zero)
               /\ Lt(totals.total_summative, totals.sa_threshold))
        /\ totals.passes => ~HasLine("Failed FA") /\ ~HasLine("Failed SA")
        /\ ~totals.passes => HasLine("Failed FA") \/ HasLine("Failed SA")

\* C7: every step leaves the list unchanged or appends one record at its end;
\* the i-th item line of the summary, numbered i, and the i-th row of
\* grades.csv are the i-th record entered, one line and one row per record.
ItemsPrinted == SelectSeq(stdout, LAMBDA l : l.t = "item")
C7_Listing ==
    /\ Reported =>
          /\ Len(ItemsPrinted) = Len(assignments)
          /\ \A i \in DOMAIN assignments :
                SubSeq(ItemsPrinted[i].args, 1, 5) =
                    <<NatStr(i), assignments[i].name, assignments[i].category,
                      Fmt2(assignments[i].grade), Fmt2(assignments[i].weight)>>
    /\ pc \in {"confirm", "exit"} /\ assignments # <<>> =>
          /\ csvfile.exists
          /\ Len(csvfile.rows) = Len(assignments)
          /\ \A i \in DOMAIN assignments :
                csvfile.rows[i] =
                    <<assignments[i].name, assignments[i].category,
                      Fmt2(assignments[i].grade), Fmt2(assignments[i].weight)>>
C7_Grows ==
    \/ assignments' = assignments
    \/ /\ Len(assignments') = Len(assignments) + 1
       /\ SubSeq(assignments', 1, Len(assignments)) = assignments
C7_AppendOnlyInEntryOrder == [](C7_Listing) /\ [][C7_Grows]_vars

\* two different records, listed and written in the order of entry
C7_Witness ==
    /\ pc = "exit"
    /\ Len(assignments) = 2
    /\ assignments[1] # assignments[2]
    /\ Len(csvfile.rows) = 2
    /\ csvfile.rows[1][1] = assignments[1].name
    /\ Len(ItemsPrinted) = 2

\* C8: with an empty list main prints the informational message and ends:
\* calculate_totals, print_summary and write_csv are not called and the save
\* confirmation is not printed.
C8_Ended ==
    (pc = "exit" /\ assignments = <<>>) =>
        /\ events = <<"collect_assignments", "print_no_assignments">>
        /\ stdout = <<NoAssignmentsLine>>
        /\ totals = None
C8_Untouched ==
    assignments = <<>> =>
        /\ csvfile' = csvfile
        /\ totals' = totals
        /\ pc' = "exit"
C8_EmptyListOnlyExitMessage == [](C8_Ended) /\ [][C8_Untouched]_vars

C8_Witness ==
    /\ pc = "exit"
    /\ assignments = <<>>
    /\ stdout = <<NoAssignmentsLine>>
    /\ csvfile = OldFile

\* C9: when write_csv raises, the session ends there: the save confirmation is
\* not printed, the write is not retried, no prompt is issued again, and the
\* summary is all that main has printed.
Raised == Count(events, "OSError") > 0
C9_Crashed ==
    Raised =>
        /\ pc = "crashed"
        /\ Count(events, "write_csv") = 1
        /\ Count(events, "print_saved") = 0
        /\ ~HasLine(SavedLine.t)
        /\ stdout = print_summary(assignments, totals)
C9_WriteFailureIsFatal == [](C9_Crashed) /\ [][~Raised]_vars

\* the write failed half way: the header and the first of two rows are there
C9_Witness ==
    /\ pc = "crashed"
    /\ Raised
    /\ Len(assignments) = 2
    /\ csvfile.header = CsvHeader
    /\ Len(csvfile.rows) = 1

\* C10: the continuation question follows an append, so the list is not empty
\* when the loop is left: "yes" goes back to the name prompt, "no" is the only
\* way out of the loop, and main's branch for an empty list is never taken.
C10_State ==
    /\ pc = "continue" => Len(assignments) >= 1
    /\ pc \in MainPcs => assignments # <<>>
    /\ Count(events, "print_no_assignments") = 0
    /\ ~HasLine(NoAssignmentsLine.t)
C10_Leave ==
    /\ (pc \in Prompts /\ pc' \notin Prompts) =>
          /\ pc = "continue"
          /\ pc' = "main"
          /\ lower(strip(lastInput')) \in { <<"n">>, <<"n","o">> }
    /\ (pc = "continue" /\ lower(strip(lastInput')) \in { <<"y">>, <<"y","e","s">> }) =>
          /\ pc' = "name"
          /\ assignments' = assignments
C10_LoopNeverReturnsEmpty == [](C10_State) /\ [][C10_Leave]_vars

C10_Witness ==
    /\ pc = "calc"
    /\ Len(assignments) = 1
    /\ lastInput = <<" ","N","o">>

====
